---------------------------- MODULE Spec2Model ----------------------------
(***************************************************************************)
(* The 6502 core of the NES emulator (src/src/cpu.cpp): the register file, *)
(* the stack helpers, the interrupt latch, CpuExecOneInst, CpuReset,       *)
(* CpuRequestIRQ and the scanline loop CpuRunFrame.                        *)
(*                                                                         *)
(* The build modelled is the one the sources give: assertions enabled      *)
(* (NDEBUG undefined) and ALLOW_ADDRESS_WRAP undefined.  A failed assert   *)
(* ends the process: halt leaves "run" and nothing is enabled any more.    *)
(*                                                                         *)
(* The bus (mmc.h) is not part of the sources.  Memory is modelled as the  *)
(* cells of mem (the interrupt vectors and a few RAM cells) and, for every *)
(* other address, as an input: each read of an unmapped address draws a    *)
(* byte from the environment of the specification.                         *)
(***************************************************************************)
EXTENDS Integers, Naturals, Sequences, FiniteSets, TLC

Byte == 0 .. 255

\* enum PSW
F_CARRY == 1
F_ZERO == 2
F_INTERRUPT_OFF == 4
F_BCD == 8
F_BREAK == 16
F_NOTUSED == 32
F_OVERFLOW == 64
F_NEGATIVE == 128

VECTOR_NMI == \hFFFA
VECTOR_RESET == \hFFFC
VECTOR_IRQ == \hFFFE

maxCycles == 114

\* enum IRQ
IRQ_NONE == 0
IRQ_NMI == 1
IRQ_BRK == 2
IRQ_RST == 4
IrqKinds == {IRQ_NONE, IRQ_NMI, IRQ_BRK, IRQ_RST}

----------------------------------------------------------------------------
\* Bit-level helpers (FLAG<> and BIT<> of datatype.h, by their use in cpu.cpp)

\* P[flag], operand.bitAt(n): flag is a one-bit mask
HasBit(v, flag) == (v \div flag) % 2 = 1

SetBit(v, flag) == IF HasBit(v, flag) THEN v ELSE v + flag

ClearBit(v, flag) == IF HasBit(v, flag) THEN v - flag ELSE v

\* P.change(flag, cond)
ChangeBit(v, flag, cond) == IF cond THEN SetBit(v, flag) ELSE ClearBit(v, flag)

RECURSIVE BitAndN(_, _, _)
BitAndN(a, b, n) ==
    IF n = 0 THEN 0
    ELSE (IF a % 2 = 1 /\ b % 2 = 1 THEN 1 ELSE 0)
         + 2 * BitAndN(a \div 2, b \div 2, n - 1)

RECURSIVE BitXorN(_, _, _)
BitXorN(a, b, n) ==
    IF n = 0 THEN 0
    ELSE (IF a % 2 # b % 2 THEN 1 ELSE 0)
         + 2 * BitXorN(a \div 2, b \div 2, n - 1)

BitAnd(a, b) == BitAndN(a, b, 16)
BitXor(a, b) == BitXorN(a, b, 16)
BitOr(a, b) == a + b - BitAnd(a, b)

\* 8-bit and 16-bit wrap-around of register and address arithmetic
Wrap8(v) == v % 256
Wrap16(v) == v % 65536

makeWord(lo, hi) == hi * 256 + lo
LowByte(w) == w % 256
HighByte(w) == (w \div 256) % 256

----------------------------------------------------------------------------
\* The opcode table (optable.h: ParseOp, IsUsualOp), the documented 6502
\* opcodes with their instruction, addressing mode and base cycle count.

Op(inst, addrmode, cyc) == [inst |-> inst, addrmode |-> addrmode, cycles |-> cyc]

OpTable ==
       (\h69 :> Op("ADC", "IMM", 2))
    @@ (\h65 :> Op("ADC", "ZP", 3))
    @@ (\h75 :> Op("ADC", "ZPX", 4))
    @@ (\h6D :> Op("ADC", "ABS", 4))
    @@ (\h7D :> Op("ADC", "ABSX", 4))
    @@ (\h79 :> Op("ADC", "ABSY", 4))
    @@ (\h61 :> Op("ADC", "INDX", 6))
    @@ (\h71 :> Op("ADC", "INDY", 5))
    @@ (\h29 :> Op("AND", "IMM", 2))
    @@ (\h25 :> Op("AND", "ZP", 3))
    @@ (\h35 :> Op("AND", "ZPX", 4))
    @@ (\h2D :> Op("AND", "ABS", 4))
    @@ (\h3D :> Op("AND", "ABSX", 4))
    @@ (\h39 :> Op("AND", "ABSY", 4))
    @@ (\h21 :> Op("AND", "INDX", 6))
    @@ (\h31 :> Op("AND", "INDY", 5))
    @@ (\h0A :> Op("ASLA", "IMP", 2))
    @@ (\h06 :> Op("ASL", "ZP", 5))
    @@ (\h16 :> Op("ASL", "ZPX", 6))
    @@ (\h0E :> Op("ASL", "ABS", 6))
    @@ (\h1E :> Op("ASL", "ABSX", 7))
    @@ (\h90 :> Op("BCC", "REL", 2))
    @@ (\hB0 :> Op("BCS", "REL", 2))
    @@ (\hF0 :> Op("BEQ", "REL", 2))
    @@ (\h30 :> Op("BMI", "REL", 2))
    @@ (\hD0 :> Op("BNE", "REL", 2))
    @@ (\h10 :> Op("BPL", "REL", 2))
    @@ (\h50 :> Op("BVC", "REL", 2))
    @@ (\h70 :> Op("BVS", "REL", 2))
    @@ (\h24 :> Op("BIT", "ZP", 3))
    @@ (\h2C :> Op("BIT", "ABS", 4))
    @@ (\h00 :> Op("BRK", "IMP", 7))
    @@ (\h18 :> Op("CLC", "IMP", 2))
    @@ (\hD8 :> Op("CLD", "IMP", 2))
    @@ (\h58 :> Op("CLI", "IMP", 2))
    @@ (\hB8 :> Op("CLV", "IMP", 2))
    @@ (\hC9 :> Op("CMP", "IMM", 2))
    @@ (\hC5 :> Op("CMP", "ZP", 3))
    @@ (\hD5 :> Op("CMP", "ZPX", 4))
    @@ (\hCD :> Op("CMP", "ABS", 4))
    @@ (\hDD :> Op("CMP", "ABSX", 4))
    @@ (\hD9 :> Op("CMP", "ABSY", 4))
    @@ (\hC1 :> Op("CMP", "INDX", 6))
    @@ (\hD1 :> Op("CMP", "INDY", 5))
    @@ (\hE0 :> Op("CPX", "IMM", 2))
    @@ (\hE4 :> Op("CPX", "ZP", 3))
    @@ (\hEC :> Op("CPX", "ABS", 4))
    @@ (\hC0 :> Op("CPY", "IMM", 2))
    @@ (\hC4 :> Op("CPY", "ZP", 3))
    @@ (\hCC :> Op("CPY", "ABS", 4))
    @@ (\hC6 :> Op("DEC", "ZP", 5))
    @@ (\hD6 :> Op("DEC", "ZPX", 6))
    @@ (\hCE :> Op("DEC", "ABS", 6))
    @@ (\hDE :> Op("DEC", "ABSX", 7))
    @@ (\hCA :> Op("DEX", "IMP", 2))
    @@ (\h88 :> Op("DEY", "IMP", 2))
    @@ (\h49 :> Op("EOR", "IMM", 2))
    @@ (\h45 :> Op("EOR", "ZP", 3))
    @@ (\h55 :> Op("EOR", "ZPX", 4))
    @@ (\h4D :> Op("EOR", "ABS", 4))
    @@ (\h5D :> Op("EOR", "ABSX", 4))
    @@ (\h59 :> Op("EOR", "ABSY", 4))
    @@ (\h41 :> Op("EOR", "INDX", 6))
    @@ (\h51 :> Op("EOR", "INDY", 5))
    @@ (\hE6 :> Op("INC", "ZP", 5))
    @@ (\hF6 :> Op("INC", "ZPX", 6))
    @@ (\hEE :> Op("INC", "ABS", 6))
    @@ (\hFE :> Op("INC", "ABSX", 7))
    @@ (\hE8 :> Op("INX", "IMP", 2))
    @@ (\hC8 :> Op("INY", "IMP", 2))
    @@ (\h4C :> Op("JMP", "ABS", 3))
    @@ (\h6C :> Op("JMP", "IND", 5))
    @@ (\h20 :> Op("JSR", "ABS", 6))
    @@ (\hA9 :> Op("LDA", "IMM", 2))
    @@ (\hA5 :> Op("LDA", "ZP", 3))
    @@ (\hB5 :> Op("LDA", "ZPX", 4))
    @@ (\hAD :> Op("LDA", "ABS", 4))
    @@ (\hBD :> Op("LDA", "ABSX", 4))
    @@ (\hB9 :> Op("LDA", "ABSY", 4))
    @@ (\hA1 :> Op("LDA", "INDX", 6))
    @@ (\hB1 :> Op("LDA", "INDY", 5))
    @@ (\hA2 :> Op("LDX", "IMM", 2))
    @@ (\hA6 :> Op("LDX", "ZP", 3))
    @@ (\hB6 :> Op("LDX", "ZPY", 4))
    @@ (\hAE :> Op("LDX", "ABS", 4))
    @@ (\hBE :> Op("LDX", "ABSY", 4))
    @@ (\hA0 :> Op("LDY", "IMM", 2))
    @@ (\hA4 :> Op("LDY", "ZP", 3))
    @@ (\hB4 :> Op("LDY", "ZPX", 4))
    @@ (\hAC :> Op("LDY", "ABS", 4))
    @@ (\hBC :> Op("LDY", "ABSX", 4))
    @@ (\h4A :> Op("LSRA", "IMP", 2))
    @@ (\h46 :> Op("LSR", "ZP", 5))
    @@ (\h56 :> Op("LSR", "ZPX", 6))
    @@ (\h4E :> Op("LSR", "ABS", 6))
    @@ (\h5E :> Op("LSR", "ABSX", 7))
    @@ (\hEA :> Op("NOP", "IMP", 2))
    @@ (\h09 :> Op("ORA", "IMM", 2))
    @@ (\h05 :> Op("ORA", "ZP", 3))
    @@ (\h15 :> Op("ORA", "ZPX", 4))
    @@ (\h0D :> Op("ORA", "ABS", 4))
    @@ (\h1D :> Op("ORA", "ABSX", 4))
    @@ (\h19 :> Op("ORA", "ABSY", 4))
    @@ (\h01 :> Op("ORA", "INDX", 6))
    @@ (\h11 :> Op("ORA", "INDY", 5))
    @@ (\h48 :> Op("PHA", "IMP", 3))
    @@ (\h08 :> Op("PHP", "IMP", 3))
    @@ (\h68 :> Op("PLA", "IMP", 4))
    @@ (\h28 :> Op("PLP", "IMP", 4))
    @@ (\h2A :> Op("ROLA", "IMP", 2))
    @@ (\h26 :> Op("ROL", "ZP", 5))
    @@ (\h36 :> Op("ROL", "ZPX", 6))
    @@ (\h2E :> Op("ROL", "ABS", 6))
    @@ (\h3E :> Op("ROL", "ABSX", 7))
    @@ (\h6A :> Op("RORA", "IMP", 2))
    @@ (\h66 :> Op("ROR", "ZP", 5))
    @@ (\h76 :> Op("ROR", "ZPX", 6))
    @@ (\h6E :> Op("ROR", "ABS", 6))
    @@ (\h7E :> Op("ROR", "ABSX", 7))
    @@ (\h40 :> Op("RTI", "IMP", 6))
    @@ (\h60 :> Op("RTS", "IMP", 6))
    @@ (\hE9 :> Op("SBC", "IMM", 2))
    @@ (\hE5 :> Op("SBC", "ZP", 3))
    @@ (\hF5 :> Op("SBC", "ZPX", 4))
    @@ (\hED :> Op("SBC", "ABS", 4))
    @@ (\hFD :> Op("SBC", "ABSX", 4))
    @@ (\hF9 :> Op("SBC", "ABSY", 4))
    @@ (\hE1 :> Op("SBC", "INDX", 6))
    @@ (\hF1 :> Op("SBC", "INDY", 5))
    @@ (\h38 :> Op("SEC", "IMP", 2))
    @@ (\hF8 :> Op("SED", "IMP", 2))
    @@ (\h78 :> Op("SEI", "IMP", 2))
    @@ (\h85 :> Op("STA", "ZP", 3))
    @@ (\h95 :> Op("STA", "ZPX", 4))
    @@ (\h8D :> Op("STA", "ABS", 4))
    @@ (\h9D :> Op("STA", "ABSX", 5))
    @@ (\h99 :> Op("STA", "ABSY", 5))
    @@ (\h81 :> Op("STA", "INDX", 6))
    @@ (\h91 :> Op("STA", "INDY", 6))
    @@ (\h86 :> Op("STX", "ZP", 3))
    @@ (\h96 :> Op("STX", "ZPY", 4))
    @@ (\h8E :> Op("STX", "ABS", 4))
    @@ (\h84 :> Op("STY", "ZP", 3))
    @@ (\h94 :> Op("STY", "ZPX", 4))
    @@ (\h8C :> Op("STY", "ABS", 4))
    @@ (\hAA :> Op("TAX", "IMP", 2))
    @@ (\hA8 :> Op("TAY", "IMP", 2))
    @@ (\hBA :> Op("TSX", "IMP", 2))
    @@ (\h8A :> Op("TXA", "IMP", 2))
    @@ (\h9A :> Op("TXS", "IMP", 2))
    @@ (\h98 :> Op("TYA", "IMP", 2))

IsUsualOp(opcode) == opcode \in DOMAIN OpTable

ParseOp(opcode) ==
    IF IsUsualOp(opcode) THEN OpTable[opcode] ELSE Op("UNKNOWN", "IMP", 0)

\* opinf.size: the instruction's length in bytes
OpSize(addrmode) ==
    CASE addrmode = "IMP" -> 1
      [] addrmode \in {"ABS", "ABSX", "ABSY", "IND"} -> 3
      [] OTHER -> 2

----------------------------------------------------------------------------
\* The bus (mmc.h): a mapped cell holds what was stored; a read of an
\* unmapped address returns the environment's byte e.

BusRead(m, a, e) == IF a \in DOMAIN m THEN m[a] ELSE e

BusWrite(m, a, v) == IF a \in DOMAIN m THEN [m EXCEPT ![a] = v] ELSE m

loadOperand16bit(m, a, elo, ehi) ==
    makeWord(BusRead(m, a, elo), BusRead(m, Wrap16(a + 1), ehi))

\* A CPU context c is a record of the registers A, X, Y, SP, P, PC, the stack
\* page, the mapped memory, halt ("run" or the assertion that failed), oob
\* (a stack access fell outside the 256-byte page), the bus log of the
\* current instruction and its cycleAdd.
Running(c) == c.halt = "run"

Fail(c, why) == [c EXCEPT !.halt = why]

read6502(c, addr, e) == BusRead(c.mem, addr, e)

LogRead(c, addr) == [c EXCEPT !.bus = Append(@, <<"r", addr>>)]

write6502(c, addr, v) ==
    [c EXCEPT !.mem = BusWrite(@, addr, v), !.bus = Append(@, <<"w", addr>>)]

----------------------------------------------------------------------------
\* Stack helpers

PUSH_8(c, byte) ==
    IF ~Running(c) THEN c
    ELSE LET sp1 == Wrap8(c.SP + 255)
             c1 == [c EXCEPT !.stack[c.SP] = byte, !.SP = sp1]
         IN  IF sp1 = 255 THEN Fail(c1, "assert_sp") ELSE c1

PUSH_16(c, word) ==
    IF ~Running(c) THEN c
    ELSE LET sp1 == Wrap8(c.SP + 255)
             sp2 == Wrap8(sp1 + 255)
             \* *(uint16_t*)&stack[sp1] = word: low byte at sp1, high at sp1+1
             st1 == [c.stack EXCEPT ![sp1] = LowByte(word)]
             st2 == IF sp1 = 255 THEN st1
                    ELSE [st1 EXCEPT ![sp1 + 1] = HighByte(word)]
             c1  == [c EXCEPT !.stack = st2, !.SP = sp2,
                              !.oob = @ \/ (sp1 = 255)]
         IN  IF sp2 = 255 THEN Fail(c1, "assert_sp") ELSE c1

\* pop(): the context after the pop, and the byte it returns
popCtx(c) ==
    IF ~Running(c) THEN c
    ELSE IF c.SP = 255 THEN Fail(c, "assert_sp")
    ELSE [c EXCEPT !.SP = c.SP + 1]

popVal(c) == c.stack[Wrap8(c.SP + 1)]

\* pop16bit(): the context after the pop, and the word it returns
pop16bitCtx(c) ==
    IF ~Running(c) THEN c
    ELSE IF c.SP = 255 \/ c.SP + 1 = 255 THEN Fail(c, "assert_sp")
    ELSE [c EXCEPT !.SP = c.SP + 2]

pop16bitVal(c) == makeWord(c.stack[Wrap8(c.SP + 1)], c.stack[Wrap8(c.SP + 2)])

----------------------------------------------------------------------------
\* Flag helpers

SET_Z(p, result) == ChangeBit(p, F_ZERO, Wrap8(result) = 0)
SET_N(p, result) == ChangeBit(p, F_NEGATIVE, HasBit(result, 128))
SET_NZ(p, result) == SET_Z(SET_N(p, result), result)

copyNV(p, operand) ==
    ChangeBit(ChangeBit(p, F_NEGATIVE, HasBit(operand, 128)),
              F_OVERFLOW, HasBit(operand, 64))

\* SUM.isOverflow(): bit 8 of the 9-bit ALU temporary
IsOverflow(temp) == HasBit(temp % 512, 256)

\* Shift and rotate: the new operand and the new status register
ASL(p, operand) ==
    LET r == Wrap8(operand * 2)
    IN  [val |-> r, P |-> SET_NZ(ChangeBit(p, F_CARRY, HasBit(operand, 128)), r)]

LSR(p, operand) ==
    LET r == operand \div 2
    IN  [val |-> r,
         P |-> ClearBit(SET_Z(ChangeBit(p, F_CARRY, HasBit(operand, 1)), r),
                        F_NEGATIVE)]

ROL(p, operand) ==
    LET r == Wrap8(operand * 2) + (IF HasBit(p, F_CARRY) THEN 1 ELSE 0)
    IN  [val |-> r, P |-> SET_NZ(ChangeBit(p, F_CARRY, HasBit(operand, 128)), r)]

\* ROR without the carry entering at bit 7
ROR_NoCarryIn(p, operand) ==
    LET r == operand \div 2
    IN  [val |-> r, P |-> SET_NZ(ChangeBit(p, F_CARRY, HasBit(operand, 1)), r)]

ROR(p, operand) ==
    LET r == (operand \div 2) + (IF HasBit(p, F_CARRY) THEN 128 ELSE 0)
    IN  [val |-> r, P |-> SET_NZ(ChangeBit(p, F_CARRY, HasBit(operand, 1)), r)]

----------------------------------------------------------------------------
\* Interrupt entry

doNMI(c) ==
    LET c1 == PUSH_16(c, c.PC)
        c2 == PUSH_8(c1, c1.P)
    IN  IF Running(c2)
        THEN [c2 EXCEPT !.PC = loadOperand16bit(c2.mem, VECTOR_NMI, 0, 0)]
        ELSE c2

\* The "IRQ processing" block at the top of CpuExecOneInst
IrqStage(c, requested, type) ==
    IF ~requested THEN c
    ELSE IF type = IRQ_NMI THEN doNMI(c)
    ELSE Fail(c, "assert_irq")

----------------------------------------------------------------------------
\* Addressing-mode resolution (the first switch of CpuExecOneInst).  c.PC is
\* the address after the opcode; o1, o2 are the environment's operand bytes
\* and p1, p2 its pointer bytes.  The result is the context (PC advanced,
\* cycleAdd set, the reads of ADR_IND logged) and the effective address.

\* loadZp16bit(zp): the 16-bit word at zero-page address zp
loadZp16bit(m, zp, elo, ehi) ==
    makeWord(BusRead(m, zp, elo), BusRead(m, zp + 1, ehi))

\* The page-cross test signalling whenever the index is not zero
PageCross_AnyIndex(base, index) == index # 0

\* (valueOf(addr)&0xFF00)!=((valueOf(addr)+X)&0xFF00)
PageCross(base, index) == HighByte(base) # HighByte(base + index)

\* ADR_IND reading the pointer's high byte at the next address, across pages
IndHighAddr_NextPage(w) == Wrap16(w + 1)

\* ADR_IND: where the high byte of the target is read for the pointer w
IndHighAddr(w) == (HighByte(w) * 256) + Wrap8(LowByte(w) + 1)

Resolve(c, opinf, o1, o2, p1, p2) ==
    LET mode == opinf.addrmode
        b1   == BusRead(c.mem, c.PC, o1)
        w    == loadOperand16bit(c.mem, c.PC, o1, o2)
        pc1  == Wrap16(c.PC + 1)
        pc2  == Wrap16(c.PC + 2)
    IN  CASE mode = "IMP" -> [c |-> c, addr |-> 0]
          [] mode = "ZP" -> [c |-> [c EXCEPT !.PC = pc1], addr |-> b1]
          [] mode = "REL" ->
                [c |-> [c EXCEPT !.PC = pc1],
                 addr |-> IF HasBit(b1, 128) THEN Wrap16(b1 + pc1 - 256)
                          ELSE Wrap16(b1 + pc1)]
          [] mode = "ABS" -> [c |-> [c EXCEPT !.PC = pc2], addr |-> w]
          [] mode = "IMM" -> [c |-> [c EXCEPT !.PC = pc1], addr |-> c.PC]
          [] mode = "ZPX" ->
                [c |-> [c EXCEPT !.PC = pc1], addr |-> Wrap8(b1 + c.X)]
          [] mode = "ZPY" ->
                [c |-> [c EXCEPT !.PC = pc1], addr |-> Wrap8(b1 + c.Y)]
          [] mode = "ABSX" ->
                [c |-> [c EXCEPT !.PC = pc2,
                          !.cycleAdd = IF PageCross(w, c.X) /\ opinf.cycles = 4
                                       THEN 1 ELSE 0],
                 addr |-> Wrap16(w + c.X)]
          [] mode = "ABSY" ->
                [c |-> [c EXCEPT !.PC = pc2,
                          !.cycleAdd = IF PageCross(w, c.Y) /\ opinf.cycles = 4
                                       THEN 1 ELSE 0],
                 addr |-> Wrap16(w + c.Y)]
          [] mode = "INDX" ->
                [c |-> [c EXCEPT !.PC = pc1],
                 addr |-> loadZp16bit(c.mem, Wrap8(b1 + c.X), p1, p2)]
          [] mode = "INDY" ->
                LET ptr == loadZp16bit(c.mem, b1, p1, p2)
                IN  [c |-> [c EXCEPT !.PC = pc1,
                              !.cycleAdd = IF PageCross(ptr, c.Y) /\ opinf.cycles = 5
                                           THEN 1 ELSE 0],
                     addr |-> Wrap16(ptr + c.Y)]
          [] mode = "IND" ->
                LET hiAt == IndHighAddr(w)
                IN  [c |-> LogRead(LogRead([c EXCEPT !.PC = pc2], w), hiAt),
                     addr |-> makeWord(read6502(c, w, p1), read6502(c, hiAt, p2))]

----------------------------------------------------------------------------
\* Instruction semantics (the second switch of CpuExecOneInst).  d is the
\* environment's byte for the operand read.

SetA(c, v) == [c EXCEPT !.A = v, !.P = SET_NZ(@, v)]
SetX(c, v) == [c EXCEPT !.X = v, !.P = SET_NZ(@, v)]
SetY(c, v) == [c EXCEPT !.Y = v, !.P = SET_NZ(@, v)]

\* INS_ADC: the binary path, taken whatever F_BCD is (goto IgnoreBCD)
ExecADC(c, value) ==
    LET carry == IF HasBit(c.P, F_CARRY) THEN 1 ELSE 0
        temp  == c.A + value + carry
        v     == ~HasBit(BitXor(c.A, value), 128) /\ HasBit(BitXor(c.A, temp), 128)
        p1    == ChangeBit(ChangeBit(c.P, F_OVERFLOW, v), F_CARRY, IsOverflow(temp))
    IN  SetA([c EXCEPT !.P = p1], Wrap8(temp))

\* assert(!P[F_BCD]) comes before value=read6502(addr)
ExecSBC(c, addr, value) ==
    IF HasBit(c.P, F_BCD) THEN Fail(c, "assert_bcd")
    ELSE LET borrow == IF HasBit(c.P, F_CARRY) THEN 0 ELSE 1
             temp   == c.A - value - borrow
             v      == HasBit(BitXor(c.A, value), 128)
                       /\ HasBit(BitXor(c.A, Wrap8(temp)), 128)
             p1     == ChangeBit(ChangeBit(c.P, F_CARRY, ~IsOverflow(temp)),
                                 F_OVERFLOW, v)
         IN  SetA([LogRead(c, addr) EXCEPT !.P = p1], Wrap8(temp))

\* ExecCompare setting Carry only when the register is greater than memory
ExecCompare_CarryIfGreater(c, reg, value) ==
    LET temp == reg + 256 - value
        p1   == ChangeBit(c.P, F_CARRY, IsOverflow(temp - 1))
    IN  [c EXCEPT !.P = SET_NZ(p1, Wrap8(temp - 256))]

\* INS_CMP, INS_CPX, INS_CPY with the register's value
ExecCompare(c, reg, value) ==
    LET temp == reg + 256 - value
        p1   == ChangeBit(c.P, F_CARRY, IsOverflow(temp))
    IN  [c EXCEPT !.P = SET_NZ(p1, Wrap8(temp - 256))]

\* jBranch
ExecBranch(c, taken, opaddr, addr) ==
    IF taken
    THEN [c EXCEPT !.cycleAdd = @ + (IF HighByte(opaddr) # HighByte(addr)
                                     THEN 2 ELSE 1),
                   !.PC = addr]
    ELSE c

\* ExecBRK with InterruptDisable set before the status register is pushed
ExecBRK_MaskBeforePush(c) ==
    LET c1 == PUSH_16([c EXCEPT !.PC = Wrap16(@ + 1)], Wrap16(c.PC + 1))
        c2 == [c1 EXCEPT !.P = SetBit(SetBit(@, F_BREAK), F_INTERRUPT_OFF)]
        c3 == PUSH_8(c2, c2.P)
    IN  IF Running(c3)
        THEN [c3 EXCEPT !.PC = loadOperand16bit(c3.mem, VECTOR_IRQ, 0, 0)]
        ELSE c3

ExecBRK(c) ==
    LET c1 == PUSH_16([c EXCEPT !.PC = Wrap16(@ + 1)], Wrap16(c.PC + 1))
        c2 == [c1 EXCEPT !.P = SetBit(@, F_BREAK)]
        c3 == PUSH_8(c2, c2.P)
    IN  IF Running(c3)
        THEN [c3 EXCEPT !.P = SetBit(@, F_INTERRUPT_OFF),
                        !.PC = loadOperand16bit(c3.mem, VECTOR_IRQ, 0, 0)]
        ELSE c3

ExecJSR(c, addr) ==
    LET ret == Wrap16(c.PC + 65535)
        c1  == PUSH_16([c EXCEPT !.PC = ret], ret)
    IN  IF Running(c1) THEN [c1 EXCEPT !.PC = addr] ELSE c1

\* ExecPLP without the P.set(F_NOTUSED) that follows the pop
ExecPLP_NoForce(c) ==
    LET c1 == popCtx(c)
    IN  IF Running(c1) THEN [c1 EXCEPT !.P = popVal(c)] ELSE c1

ExecPLP(c) ==
    LET c1 == popCtx(c)
    IN  IF Running(c1) THEN [c1 EXCEPT !.P = SetBit(popVal(c), F_NOTUSED)] ELSE c1

\* ExecRTI adjusting the popped program counter by one, as RTS does
ExecRTI_Increment(c) ==
    LET c1 == ExecPLP(c)
        c2 == pop16bitCtx(c1)
    IN  IF Running(c2) THEN [c2 EXCEPT !.PC = Wrap16(pop16bitVal(c1) + 1)]
        ELSE c2

ExecRTI(c) ==
    LET c1 == ExecPLP(c)
        c2 == pop16bitCtx(c1)
    IN  IF Running(c2) THEN [c2 EXCEPT !.PC = pop16bitVal(c1)] ELSE c2

\* ExecRTS resuming at the popped address itself (the increment left out)
ExecRTS_NoIncrement(c) ==
    LET c1 == pop16bitCtx(c)
    IN  IF Running(c1) THEN [c1 EXCEPT !.PC = pop16bitVal(c)] ELSE c1

ExecRTS(c) ==
    LET c1 == pop16bitCtx(c)
    IN  IF Running(c1) THEN [c1 EXCEPT !.PC = Wrap16(pop16bitVal(c) + 1)] ELSE c1

ExecPLA(c) ==
    LET c1 == popCtx(c)
    IN  IF Running(c1) THEN SetA(c1, popVal(c)) ELSE c1

\* Read-modify-write on memory: value=read6502(addr); f(M); write6502(addr,value)
ExecRMW(c, addr, r) ==
    [write6502(LogRead(c, addr), addr, r.val) EXCEPT !.P = r.P]

IncDec(p, v) == [val |-> v, P |-> SET_NZ(p, v)]

Execute(c, inst, addr, opaddr, d) ==
    LET value == read6502(c, addr, d)
        cr    == LogRead(c, addr)
        p     == c.P
    IN  CASE inst = "ADC" -> ExecADC(cr, value)
          [] inst = "AND" -> SetA(cr, BitAnd(c.A, value))
          [] inst = "ASLA" -> LET r == ASL(p, c.A) IN [c EXCEPT !.A = r.val, !.P = r.P]
          [] inst = "ASL" -> ExecRMW(c, addr, ASL(p, value))
          [] inst = "BCC" -> ExecBranch(c, ~HasBit(p, F_CARRY), opaddr, addr)
          [] inst = "BCS" -> ExecBranch(c, HasBit(p, F_CARRY), opaddr, addr)
          [] inst = "BEQ" -> ExecBranch(c, HasBit(p, F_ZERO), opaddr, addr)
          [] inst = "BMI" -> ExecBranch(c, HasBit(p, F_NEGATIVE), opaddr, addr)
          [] inst = "BNE" -> ExecBranch(c, ~HasBit(p, F_ZERO), opaddr, addr)
          [] inst = "BPL" -> ExecBranch(c, ~HasBit(p, F_NEGATIVE), opaddr, addr)
          [] inst = "BVC" -> ExecBranch(c, ~HasBit(p, F_OVERFLOW), opaddr, addr)
          [] inst = "BVS" -> ExecBranch(c, HasBit(p, F_OVERFLOW), opaddr, addr)
          [] inst = "BRK" -> ExecBRK(c)
          [] inst = "BIT" ->
                [cr EXCEPT !.P = SET_Z(copyNV(p, value), BitAnd(value, c.A))]
          [] inst = "CLC" -> [c EXCEPT !.P = ClearBit(@, F_CARRY)]
          [] inst = "CLD" -> [c EXCEPT !.P = ClearBit(@, F_BCD)]
          [] inst = "CLI" -> [c EXCEPT !.P = ClearBit(@, F_INTERRUPT_OFF)]
          [] inst = "CLV" -> [c EXCEPT !.P = ClearBit(@, F_OVERFLOW)]
          [] inst = "CMP" -> ExecCompare(cr, c.A, value)
          [] inst = "CPX" -> ExecCompare(cr, c.X, value)
          [] inst = "CPY" -> ExecCompare(cr, c.Y, value)
          [] inst = "DEC" -> ExecRMW(c, addr, IncDec(p, Wrap8(value + 255)))
          [] inst = "DEX" -> SetX(c, Wrap8(c.X + 255))
          [] inst = "DEY" -> SetY(c, Wrap8(c.Y + 255))
          [] inst = "EOR" -> SetA(cr, BitXor(c.A, value))
          [] inst = "INC" -> ExecRMW(c, addr, IncDec(p, Wrap8(value + 1)))
          [] inst = "INX" -> SetX(c, Wrap8(c.X + 1))
          [] inst = "INY" -> SetY(c, Wrap8(c.Y + 1))
          [] inst = "JMP" -> [c EXCEPT !.PC = addr]
          [] inst = "JSR" -> ExecJSR(c, addr)
          [] inst = "LDA" -> SetA(cr, value)
          [] inst = "LDX" -> SetX(cr, value)
          [] inst = "LDY" -> SetY(cr, value)
          [] inst = "LSR" -> ExecRMW(c, addr, LSR(p, value))
          [] inst = "LSRA" -> LET r == LSR(p, c.A) IN [c EXCEPT !.A = r.val, !.P = r.P]
          [] inst = "NOP" -> c
          [] inst = "ORA" -> SetA(cr, BitOr(c.A, value))
          [] inst = "PHA" -> PUSH_8(c, c.A)
          [] inst = "PHP" -> PUSH_8(c, c.P)
          [] inst = "PLA" -> ExecPLA(c)
          [] inst = "PLP" -> ExecPLP(c)
          [] inst = "ROL" -> ExecRMW(c, addr, ROL(p, value))
          [] inst = "ROLA" -> LET r == ROL(p, c.A) IN [c EXCEPT !.A = r.val, !.P = r.P]
          [] inst = "ROR" -> ExecRMW(c, addr, ROR(p, value))
          [] inst = "RORA" -> LET r == ROR(p, c.A) IN [c EXCEPT !.A = r.val, !.P = r.P]
          [] inst = "RTI" -> ExecRTI(c)
          [] inst = "RTS" -> ExecRTS(c)
          [] inst = "SBC" -> ExecSBC(c, addr, value)
          [] inst = "SEC" -> [c EXCEPT !.P = SetBit(@, F_CARRY)]
          [] inst = "SED" -> [c EXCEPT !.P = SetBit(@, F_BCD)]
          [] inst = "SEI" -> [c EXCEPT !.P = SetBit(@, F_INTERRUPT_OFF)]
          [] inst = "STA" -> write6502(c, addr, c.A)
          [] inst = "STX" -> write6502(c, addr, c.X)
          [] inst = "STY" -> write6502(c, addr, c.Y)
          [] inst = "TAX" -> SetX(c, c.A)
          [] inst = "TAY" -> SetY(c, c.A)
          [] inst = "TSX" -> SetX(c, c.SP)
          [] inst = "TXA" -> SetA(c, c.X)
          [] inst = "TXS" -> [c EXCEPT !.SP = c.X]
          [] inst = "TYA" -> SetA(c, c.Y)
          [] OTHER -> c

----------------------------------------------------------------------------
\* One call of CpuExecOneInst as a function of the state before it and of
\* the bytes the environment supplies: op (opcode), o1, o2 (operand bytes),
\* p1, p2 (pointer bytes) and d (operand value).

\* Instructions whose execution calls read6502(addr)
ReadsOperand(inst) ==
    inst \in {"ADC", "AND", "ASL", "BIT", "CMP", "CPX", "CPY", "DEC", "EOR",
              "INC", "LDA", "LDX", "LDY", "LSR", "ORA", "ROL", "ROR", "SBC"}

ExecResult(c, fetched, fetchSP, opaddr, opcode, opinf, addr, operand, value) ==
    [c |-> c, fetched |-> fetched, fetchSP |-> fetchSP, opaddr |-> opaddr,
     opcode |-> opcode, inst |-> opinf.inst, addr |-> addr,
     ret |-> c.cycleAdd + opinf.cycles, operand |-> operand, value |-> value]

ExecOneInst(c0, requested, type, op, o1, o2, p1, p2, d) ==
    LET c1     == IrqStage(c0, requested, type)
        opaddr == c1.PC
        opcode == BusRead(c1.mem, opaddr, op)
        opinf  == ParseOp(opcode)
        c2     == [c1 EXCEPT !.PC = Wrap16(@ + 1)]
        r      == Resolve(c2, opinf, o1, o2, p1, p2)
        \* the operand bytes that follow the opcode, and the byte read6502(addr)
        \* returns to the instruction
        operand == CASE opinf.addrmode = "IMM" -> BusRead(c2.mem, c2.PC, d)
                     [] OpSize(opinf.addrmode) = 2 -> BusRead(c2.mem, c2.PC, o1)
                     [] OpSize(opinf.addrmode) = 3 ->
                            loadOperand16bit(c2.mem, c2.PC, o1, o2)
                     [] OTHER -> 0
        value   == IF ReadsOperand(opinf.inst) THEN read6502(r.c, r.addr, d)
                   ELSE 0
    IN  IF ~Running(c1)
        THEN ExecResult(c1, FALSE, c1.SP, opaddr, opcode, opinf, 0, 0, 0)
        ELSE IF ~IsUsualOp(opcode)
        THEN ExecResult(Fail(c2, "assert_opcode"), TRUE, c1.SP, opaddr, opcode,
                        opinf, 0, 0, 0)
        ELSE IF ~HasBit(c2.P, F_NOTUSED)
        THEN ExecResult(Fail(c2, "assert_notused"), TRUE, c1.SP, opaddr, opcode,
                        opinf, 0, 0, 0)
        ELSE IF opaddr + OpSize(opinf.addrmode) # r.c.PC
        THEN ExecResult(Fail(r.c, "assert_size"), TRUE, c1.SP, opaddr, opcode,
                        opinf, r.addr, operand, 0)
        ELSE ExecResult(Execute(r.c, opinf.inst, r.addr, opaddr, d),
                        TRUE, c1.SP, opaddr, opcode, opinf, r.addr, operand,
                        value)

----------------------------------------------------------------------------
VARIABLES A, X, Y, SP, P, PC,      \* the registers
          stack,                   \* the stack page, stack[0 .. 255]
          mem,                     \* the mapped memory cells
          cycles,                  \* cycles since the last scanline boundary
          steps,                   \* single-step calls made so far (bounds the model)
          irqRequested, irqType,   \* the interrupt latch
          halt,                    \* "run", or the assertion that ended the process
          oob,                     \* a stack access left the stack page
          pos,                     \* "idle", or "frame": inside CpuRunFrame
          scanline,                \* the PPU's scanline counter
          unsettled,               \* hook calls not yet followed by cycles-=maxCycles
          frames,                  \* calls of CpuRunFrame so far
          resetDone,               \* CpuReset has been called
          last                     \* the last operation and what it did

cpuVars == <<A, X, Y, SP, P, PC, stack, mem, halt, oob>>
irqVars == <<irqRequested, irqType>>
frameVars == <<pos, scanline, unsettled, frames>>
vars == <<A, X, Y, SP, P, PC, stack, mem, cycles, steps, irqRequested,
          irqType, halt, oob, pos, scanline, unsettled, frames, resetDone, last>>

\* The registers as a context, and back
Ctx == [A |-> A, X |-> X, Y |-> Y, SP |-> SP, P |-> P, PC |-> PC,
        stack |-> stack, mem |-> mem, halt |-> halt, oob |-> oob,
        bus |-> <<>>, cycleAdd |-> 0]

SetCtx(c) ==
    /\ A' = c.A /\ X' = c.X /\ Y' = c.Y /\ SP' = c.SP /\ P' = c.P
    /\ PC' = c.PC /\ stack' = c.stack /\ mem' = c.mem /\ halt' = c.halt
    /\ oob' = c.oob

\* last: op is the operation ("init", "reset", "request", "exec", "call",
\* "hsync", "return"); for "exec", opaddr, opcode, inst, addr and ret are the
\* instruction's address, opcode, mnemonic, effective address and cycle count, irq the
\* kind that was latched when the call began, preSP the stack pointer at the
\* opcode fetch, bus the read6502/write6502 calls made, operand the bytes
\* that follow the opcode and value the byte read6502(addr) returned; for
\* "request", irq is the kind requested and over tells that another kind was
\* pending.
NoLast == [op |-> "init", opaddr |-> 0, opcode |-> 0, inst |-> "",
           addr |-> 0, ret |-> 0,
           irq |-> IRQ_NONE, over |-> FALSE, preSP |-> 0, bus |-> <<>>,
           operand |-> 0, value |-> 0]

\* The bounds of the model
MaxInsts == 3
MaxScanlines == 2
MaxFrames == 2

\* The memory image: the three vectors and two RAM cells
RomImage ==
       (\hFFFA :> \h00) @@ (\hFFFB :> \h90)
    @@ (\hFFFC :> \h00) @@ (\hFFFD :> \h80)
    @@ (\hFFFE :> \h00) @@ (\hFFFF :> \hA0)
    @@ (\h0010 :> \h00) @@ (\h0011 :> \h02)

Init ==
    /\ A = 0 /\ X = 0 /\ Y = 0 /\ SP = 0 /\ P = 0 /\ PC = 0
    /\ stack = [i \in 0 .. 255 |-> 0]
    /\ mem = RomImage
    /\ cycles = 0 /\ steps = 0
    /\ irqRequested = FALSE /\ irqType = IRQ_NONE
    /\ halt = "run" /\ oob = FALSE
    /\ pos = "idle" /\ scanline = 0 /\ unsettled = 0 /\ frames = 0
    /\ resetDone = FALSE
    /\ last = NoLast

----------------------------------------------------------------------------
\* An environment E gives what unmapped memory may hold: ops (opcodes),
\* bytes (one-byte operands), words (two-byte operands), ptrs (pointer
\* words) and data (operand values).

OperandChoices(E, addrmode) ==
    CASE addrmode \in {"IMP", "IMM"} -> {0}
      [] addrmode \in {"ABS", "ABSX", "ABSY", "IND"} -> E.words
      [] OTHER -> E.bytes

PointerChoices(E, addrmode) ==
    IF addrmode \in {"IND", "INDX", "INDY"} THEN E.ptrs ELSE {0}

DataChoices(E, inst) == IF ReadsOperand(inst) THEN E.data ELSE {0}

\* The state change of one CpuExecOneInst call; its return value is r.ret
ExecEffect(r) ==
    /\ SetCtx(r.c)
    /\ irqRequested' = IF r.fetched THEN FALSE ELSE irqRequested
    /\ irqType' = IF r.fetched THEN IRQ_NONE ELSE irqType
    /\ last' = [op |-> "exec", opaddr |-> r.opaddr, opcode |-> r.opcode,
                inst |-> r.inst,
                addr |-> r.addr, ret |-> r.ret,
                irq |-> IF irqRequested THEN irqType ELSE IRQ_NONE,
                over |-> FALSE, preSP |-> r.fetchSP, bus |-> r.c.bus,
                operand |-> r.operand, value |-> r.value]

\* All results of CpuExecOneInst in the current state under environment E,
\* with the interrupt latch as given
ExecChoicesFor(E, requested, type) ==
    LET c1 == IrqStage(Ctx, requested, type)
    IN  UNION { LET opinf == ParseOp(BusRead(mem, c1.PC, op))
                IN  { ExecOneInst(Ctx, requested, type, op,
                                  LowByte(w), HighByte(w),
                                  LowByte(pw), HighByte(pw), d) :
                        <<w, pw, d>> \in OperandChoices(E, opinf.addrmode)
                                         \X PointerChoices(E, opinf.addrmode)
                                         \X DataChoices(E, opinf.inst) }
              : op \in E.ops }

ExecChoices(E) == ExecChoicesFor(E, irqRequested, irqType)

\* int CpuExecOneInst(), called by the host (the single-step use)
CpuExecOneInst(E) ==
    /\ halt = "run" /\ pos = "idle"
    /\ steps < MaxInsts
    /\ steps' = steps + 1
    /\ \E r \in ExecChoices(E) : ExecEffect(r)
    /\ UNCHANGED <<cycles, pos, scanline, unsettled, frames, resetDone>>

\* void CpuReset()
\* CpuReset leaving the interrupt latch as it is
CpuReset_KeepsLatch ==
    /\ halt = "run" /\ pos = "idle"
    /\ A' = 0 /\ X' = 0 /\ Y' = 0
    /\ SP' = 255
    /\ P' = SetBit(0, F_NOTUSED)
    /\ cycles' = 0
    /\ PC' = loadOperand16bit(mem, VECTOR_RESET, 0, 0)
    /\ resetDone' = TRUE
    /\ last' = [NoLast EXCEPT !.op = "reset"]
    /\ UNCHANGED <<irqVars, stack, mem, halt, oob, steps, pos, scanline,
                   unsettled, frames>>

CpuReset ==
    /\ halt = "run" /\ pos = "idle"
    /\ A' = 0 /\ X' = 0 /\ Y' = 0
    /\ SP' = 255
    /\ P' = SetBit(0, F_NOTUSED)
    /\ cycles' = 0
    /\ irqRequested' = FALSE /\ irqType' = IRQ_NONE
    /\ PC' = loadOperand16bit(mem, VECTOR_RESET, 0, 0)
    /\ resetDone' = TRUE
    /\ last' = [NoLast EXCEPT !.op = "reset"]
    /\ UNCHANGED <<stack, mem, halt, oob, steps, pos, scanline, unsettled, frames>>

\* CpuRequestIRQ keeping a request that is already pending (first request wins)
CpuRequestIRQ_FirstWins(type) ==
    /\ halt = "run"
    /\ irqRequested' = (irqRequested \/ type # IRQ_NONE)
    /\ irqType' = IF irqRequested THEN irqType ELSE type
    /\ last' = [NoLast EXCEPT !.op = "request", !.irq = type,
                              !.over = irqRequested /\ irqType # type]
    /\ UNCHANGED <<cpuVars, cycles, steps, frameVars, resetDone>>

\* void CpuRequestIRQ(enum IRQ type)
CpuRequestIRQ(type) ==
    /\ halt = "run"
    /\ irqRequested' = (type # IRQ_NONE)
    /\ irqType' = type
    /\ last' = [NoLast EXCEPT !.op = "request", !.irq = type,
                              !.over = irqRequested /\ irqType # type]
    /\ UNCHANGED <<cpuVars, cycles, steps, frameVars, resetDone>>

----------------------------------------------------------------------------
\* int CpuRunFrame(): pos = "frame" is the test of the inner while loop.

CpuRunFrameCall ==
    /\ halt = "run" /\ pos = "idle"
    /\ frames < MaxFrames
    /\ pos' = "frame"
    /\ frames' = frames + 1
    /\ last' = [NoLast EXCEPT !.op = "call"]
    /\ UNCHANGED <<cpuVars, cycles, steps, irqVars, scanline, unsettled, resetDone>>

\* PpuHSync() (ppu.h): the hook reports the frame complete at the latest on
\* its MaxScanlines-th call of a frame.
HookResults == IF scanline + 1 >= MaxScanlines THEN {TRUE} ELSE BOOLEAN

\* RunFrameHSync with the loop condition cycles >= maxCycles
RunFrameHSync_AtBudget ==
    /\ halt = "run" /\ pos = "frame"
    /\ cycles >= maxCycles
    /\ \E done \in HookResults :
          /\ scanline' = IF done THEN 0 ELSE scanline + 1
          /\ pos' = IF done THEN "idle" ELSE "frame"
          /\ cycles' = IF done THEN cycles ELSE cycles - maxCycles
          /\ unsettled' = IF done THEN unsettled + 1 ELSE unsettled
          /\ last' = [NoLast EXCEPT !.op = IF done THEN "return" ELSE "hsync"]
    /\ UNCHANGED <<cpuVars, steps, irqVars, frames, resetDone>>

\* while (cycles>maxCycles) { if (PpuHSync()) return 1; cycles-=maxCycles; }
RunFrameHSync ==
    /\ halt = "run" /\ pos = "frame"
    /\ cycles > maxCycles
    /\ \E done \in HookResults :
          /\ scanline' = IF done THEN 0 ELSE scanline + 1
          /\ pos' = IF done THEN "idle" ELSE "frame"
          /\ cycles' = IF done THEN cycles ELSE cycles - maxCycles
          /\ unsettled' = IF done THEN unsettled + 1 ELSE unsettled
          /\ last' = [NoLast EXCEPT !.op = IF done THEN "return" ELSE "hsync"]
    /\ UNCHANGED <<cpuVars, steps, irqVars, frames, resetDone>>

\* RunFrameExec dropping the instruction's cycle count
RunFrameExec_NoAccount(E) ==
    /\ halt = "run" /\ pos = "frame"
    /\ cycles <= maxCycles
    /\ \E r \in ExecChoices(E) :
          /\ ExecEffect(r)
          /\ cycles' = cycles
    /\ UNCHANGED <<steps, pos, scanline, unsettled, frames, resetDone>>

\* cycles+=CpuExecOneInst();
RunFrameExec(E) ==
    /\ halt = "run" /\ pos = "frame"
    /\ cycles <= maxCycles
    /\ \E r \in ExecChoices(E) :
          /\ ExecEffect(r)
          /\ cycles' = IF Running(r.c) THEN cycles + r.ret ELSE cycles
    /\ UNCHANGED <<steps, pos, scanline, unsettled, frames, resetDone>>

----------------------------------------------------------------------------
\* The single-step specification: CpuReset, CpuRequestIRQ and CpuExecOneInst
\* called in any order, on any program built from CoreEnv.

CoreEnv ==
    [ops   |-> {\hA9, \h48, \h28, \h40, \h60, \h20, \h00, \h78, \h02},
     bytes |-> {\h10},
     words |-> {\h1234},
     ptrs  |-> {\h0200},
     data  |-> {\hDF}]

Next ==
    \/ CpuReset
    \/ \E type \in IrqKinds : CpuRequestIRQ(type)
    \/ CpuExecOneInst(CoreEnv)

Spec == Init /\ [][Next]_vars

\* The frame specification: CpuRunFrame on a program that polls an I/O
\* register ($2002) in a loop, with an RTI as the NMI handler.
\*   8000: LDA $2002   8003: TAX   8004: BPL $8000   8006: TAY
\*   8007: PHA         8008: PLA   8009: JMP $8000   9000: RTI
FrameImage ==
       RomImage
    @@ (\h8000 :> \hAD) @@ (\h8001 :> \h02) @@ (\h8002 :> \h20)
    @@ (\h8003 :> \hAA)
    @@ (\h8004 :> \h10) @@ (\h8005 :> \hFA)
    @@ (\h8006 :> \hA8)
    @@ (\h8007 :> \h48)
    @@ (\h8008 :> \h68)
    @@ (\h8009 :> \h4C) @@ (\h800A :> \h00) @@ (\h800B :> \h80)
    @@ (\h9000 :> \h40)

FrameEnv ==
    [ops |-> {\hEA}, bytes |-> {0}, words |-> {0}, ptrs |-> {0},
     data |-> {\h00, \h80}]

InitFrame ==
    /\ A = 0 /\ X = 0 /\ Y = 0 /\ SP = 0 /\ P = 0 /\ PC = 0
    /\ stack = [i \in 0 .. 255 |-> 0]
    /\ mem = FrameImage
    /\ cycles = 0 /\ steps = 0
    /\ irqRequested = FALSE /\ irqType = IRQ_NONE
    /\ halt = "run" /\ oob = FALSE
    /\ pos = "idle" /\ scanline = 0 /\ unsettled = 0 /\ frames = 0
    /\ resetDone = FALSE
    /\ last = NoLast

\* Between two frames the host may reset the CPU or request an interrupt.
HostRequestIRQ(type) == pos = "idle" /\ CpuRequestIRQ(type)

NextFrame ==
    \/ CpuReset
    \/ \E type \in IrqKinds : HostRequestIRQ(type)
    \/ CpuRunFrameCall
    \/ RunFrameHSync
    \/ RunFrameExec(FrameEnv)

SpecFrame == InitFrame /\ [][NextFrame]_vars

\* A program that moves the stack pointer to 0 and pushes: LDX #$00; TXS; PHA.
StackWrapImage ==
       RomImage
    @@ (\h8000 :> \hA2) @@ (\h8001 :> \h00)
    @@ (\h8002 :> \h9A)
    @@ (\h8003 :> \h48)
    @@ (\h8004 :> \h4C) @@ (\h8005 :> \h00) @@ (\h8006 :> \h80)
    @@ (\h9000 :> \h40)

InitFrameLive ==
    /\ A = 0 /\ X = 0 /\ Y = 0 /\ SP = 0 /\ P = 0 /\ PC = 0
    /\ stack = [i \in 0 .. 255 |-> 0]
    /\ mem \in {FrameImage, StackWrapImage}
    /\ cycles = 0 /\ steps = 0
    /\ irqRequested = FALSE /\ irqType = IRQ_NONE
    /\ halt = "run" /\ oob = FALSE
    /\ pos = "idle" /\ scanline = 0 /\ unsettled = 0 /\ frames = 0
    /\ resetDone = FALSE
    /\ last = NoLast

\* The frame loop under fairness: once CpuRunFrame has been called its loop
\* keeps running (a sequential program does not pause by itself).  The host
\* requests only the kind the interrupt stage has a case for.
\* RunFrameExec is enabled exactly in the states of ExecGuard (CpuExecOneInst
\* always has a result) and is the only step possible there, so its weak
\* fairness is written with the guard in place of ENABLED and of the step.
ExecGuard == pos = "frame" /\ halt = "run" /\ cycles <= maxCycles

FairFrameLoop ==
    /\ WF_vars(RunFrameHSync)
    /\ ([]<>(~ExecGuard) \/ []<><<ExecGuard>>_vars)

NextFrameLive ==
    \/ CpuReset
    \/ HostRequestIRQ(IRQ_NMI)
    \/ CpuRunFrameCall
    \/ RunFrameHSync
    \/ RunFrameExec(FrameEnv)

SpecFrameLive ==
    /\ InitFrameLive /\ [][NextFrameLive]_vars
    /\ FairFrameLoop

----------------------------------------------------------------------------
\* Single instructions on chosen register values.  As CpuTests does, the host
\* sets the registers directly after CpuReset; then CpuExecOneInst runs the
\* instructions an environment supplies.

\* The memory image with a pointer table for indirect jumps
UnitImage ==
       RomImage
    @@ (\h3000 :> \h12) @@ (\h3080 :> \h78) @@ (\h3081 :> \h9A)
    @@ (\h30FF :> \h34) @@ (\h3100 :> \h56)

InitUnit ==
    /\ A = 0 /\ X = 0 /\ Y = 0 /\ SP = 0 /\ P = 0 /\ PC = 0
    /\ stack = [i \in 0 .. 255 |-> 0]
    /\ mem = UnitImage
    /\ cycles = 0 /\ steps = 0
    /\ irqRequested = FALSE /\ irqType = IRQ_NONE
    /\ halt = "run" /\ oob = FALSE
    /\ pos = "idle" /\ scanline = 0 /\ unsettled = 0 /\ frames = 0
    /\ resetDone = FALSE
    /\ last = NoLast

\* Instructions run after one set-up, where a sequence is needed
MaxUnitInsts == 2

\* CpuReset as the first call after construction
UnitReset == last.op = "init" /\ CpuReset

\* The registers are assigned one of the records of S (A=...; SP=...; PC=...)
UnitSetup(S) ==
    /\ halt = "run" /\ pos = "idle"
    /\ last.op = "reset"
    /\ \E s \in S :
          /\ A' = s.A /\ X' = s.X /\ Y' = s.Y
          /\ SP' = s.SP /\ P' = s.P /\ PC' = s.PC
    /\ steps' = 0
    /\ last' = [NoLast EXCEPT !.op = "setup"]
    /\ UNCHANGED <<stack, mem, halt, oob, cycles, irqVars, frameVars, resetDone>>

\* CpuExecOneInst called once on the registers just set up
UnitExec(E) ==
    /\ halt = "run" /\ pos = "idle"
    /\ last.op = "setup"
    /\ \E r \in ExecChoices(E) : ExecEffect(r)
    /\ UNCHANGED <<cycles, steps, pos, scanline, unsettled, frames, resetDone>>

\* CpuExecOneInst called up to MaxUnitInsts times after a set-up
UnitRun(E) ==
    /\ halt = "run" /\ pos = "idle"
    /\ last.op \in {"setup", "exec"}
    /\ steps < MaxUnitInsts
    /\ steps' = steps + 1
    /\ \E r \in ExecChoices(E) : ExecEffect(r)
    /\ UNCHANGED <<cycles, pos, scanline, unsettled, frames, resetDone>>

\* Stack instructions at every stack pointer, and PHP/PLP on every status
\* register with the Reserved bit set
StackSetups ==
       { [A |-> \hAB, X |-> 0, Y |-> 0, SP |-> s, P |-> F_NOTUSED,
          PC |-> \h8000] : s \in Byte }
    \cup { [A |-> \hAB, X |-> 0, Y |-> 0, SP |-> 255, P |-> q,
          PC |-> \h8000] : q \in {b \in Byte : HasBit(b, F_NOTUSED)} }

StackEnv ==
    [ops |-> {\h08, \h28, \h48, \h68, \h20, \h60}, bytes |-> {0},
     words |-> {\h1234}, ptrs |-> {0}, data |-> {0}]

NextStack ==
    \/ UnitReset
    \/ UnitSetup(StackSetups)
    \/ UnitRun(StackEnv)

SpecStack == InitUnit /\ [][NextStack]_vars

\* Compare instructions on every register value and every memory operand:
\* A, X and Y run through all bytes, each different from the other two, with
\* N, V, Z, C all set beforehand, and all clear for a few register values.
CompareSetups ==
       { [A |-> r, X |-> Wrap8(r + 85), Y |-> Wrap8(r + 170), SP |-> 255,
          P |-> \hE3, PC |-> \h8000] : r \in Byte }
    \cup { [A |-> r, X |-> Wrap8(r + 85), Y |-> Wrap8(r + 170), SP |-> 255,
          P |-> \h20, PC |-> \h8000] : r \in {\h00, \h50, \h80, \hFF} }

\* CMP #, CPX #, CPY # with any operand byte
CompareEnv ==
    [ops |-> {\hC9, \hE0, \hC0}, bytes |-> {0}, words |-> {0}, ptrs |-> {0},
     data |-> Byte]

NextCompare ==
    \/ UnitReset
    \/ UnitSetup(CompareSetups)
    \/ UnitExec(CompareEnv)

SpecCompare == InitUnit /\ [][NextCompare]_vars

\* ADC and SBC on every accumulator value, with each combination of the
\* Carry and Decimal flags
ArithSetups ==
    { [A |-> r, X |-> 0, Y |-> 0, SP |-> 255, P |-> q, PC |-> \h8000] :
        r \in Byte, q \in {\h20, \h21, \h28, \h29} }

\* ADC #, SBC # with operands around the digit, sign and byte boundaries
ArithEnv ==
    [ops |-> {\h69, \hE9}, bytes |-> {0}, words |-> {0}, ptrs |-> {0},
     data |-> {\h00, \h01, \h02, \h0F, \h10, \h3F, \h40, \h50,
               \h7F, \h80, \h81, \h90, \hB0, \hF0, \hFE, \hFF}]

NextArith ==
    \/ UnitReset
    \/ UnitSetup(ArithSetups)
    \/ UnitExec(ArithEnv)

SpecArith == InitUnit /\ [][NextArith]_vars

\* Branches and indirect jumps: the instruction sits in the middle of a
\* page, or at its end so that the instruction straddles the page boundary;
\* N, V, Z, C are all clear or all set.
FlowSetups ==
    { [A |-> 0, X |-> 0, Y |-> 0, SP |-> 255, P |-> q, PC |-> a] :
        a \in {\h8000, \h8080, \h80FD, \h80FE, \h80FF}, q \in {\h20, \hE3} }

\* The eight branches with any displacement byte, and JMP (ind) through
\* pointers in the mapped table and outside it
FlowEnv ==
    [ops |-> {\h10, \h30, \h50, \h70, \h90, \hB0, \hD0, \hF0, \h6C},
     bytes |-> Byte, words |-> {\h30FF, \h3080, \h12FF, \h4400},
     ptrs |-> {\h4321}, data |-> {0}]

NextFlow ==
    \/ UnitReset
    \/ UnitSetup(FlowSetups)
    \/ UnitExec(FlowEnv)

SpecFlow == InitUnit /\ [][NextFlow]_vars

\* Indexed addressing: the memory image with three zero-page pointers,
\* $10 -> $0200 (start of a page), $20 -> $02F0 (near a page end) and
\* $22 -> $FFFF (the end of the address space)
IndexImage ==
       RomImage
    @@ (\h0020 :> \hF0) @@ (\h0021 :> \h02)
    @@ (\h0022 :> \hFF) @@ (\h0023 :> \hFF)

InitIndex ==
    /\ A = 0 /\ X = 0 /\ Y = 0 /\ SP = 0 /\ P = 0 /\ PC = 0
    /\ stack = [i \in 0 .. 255 |-> 0]
    /\ mem = IndexImage
    /\ cycles = 0 /\ steps = 0
    /\ irqRequested = FALSE /\ irqType = IRQ_NONE
    /\ halt = "run" /\ oob = FALSE
    /\ pos = "idle" /\ scanline = 0 /\ unsettled = 0 /\ frames = 0
    /\ resetDone = FALSE
    /\ last = NoLast

\* Index registers that leave the base's page, reach its last byte, or stay
IndexSetups ==
    { [A |-> \h5A, X |-> i, Y |-> j, SP |-> 255, P |-> F_NOTUSED,
       PC |-> \h8000] : i \in {\h00, \h01, \h10, \hFF},
                         j \in {\h00, \h01, \h0F, \h10, \hFF} }

\* Loads, stores and read-modify-writes in the indexed modes with base
\* counts 4, 5, 6 and 7, and instructions in the other modes:
\*   abs,X: LDA BD (4), LDY BC (4), STA 9D (5), ASL 1E (7)
\*   abs,Y: LDA B9 (4), LDX BE (4), STA 99 (5)
\*   (zp),Y: LDA B1 (5), STA 91 (6)      (zp,X): LDA A1 (6)
\*   zp,X: LDA B5 (4)   zp,Y: LDX B6 (4)   abs: LDA AD (4), JMP 4C (3)
\*   zp: LDA A5 (3)     #: LDA A9 (2)      implied: NOP EA (2)
IndexEnv ==
    [ops   |-> {\hBD, \hBC, \h9D, \h1E, \hB9, \hBE, \h99, \hB1, \h91,
                \hA1, \hB5, \hB6, \hAD, \h4C, \hA5, \hA9, \hEA},
     bytes |-> {\h10, \h20, \h22},
     words |-> {\h1200, \h12F0, \h12FF, \hFFFF},
     ptrs  |-> {\h0300},
     data  |-> {\h00, \h80}]

NextIndex ==
    \/ UnitReset
    \/ UnitSetup(IndexSetups)
    \/ UnitExec(IndexEnv)

SpecIndex == InitIndex /\ [][NextIndex]_vars

\* Shifts and rotates: the zero-page cell $10 holds any byte v
ShiftCell == \h10

InitShift ==
    /\ A = 0 /\ X = 0 /\ Y = 0 /\ SP = 0 /\ P = 0 /\ PC = 0
    /\ stack = [i \in 0 .. 255 |-> 0]
    /\ mem \in { [RomImage EXCEPT ![ShiftCell] = v] : v \in Byte }
    /\ cycles = 0 /\ steps = 0
    /\ irqRequested = FALSE /\ irqType = IRQ_NONE
    /\ halt = "run" /\ oob = FALSE
    /\ pos = "idle" /\ scanline = 0 /\ unsettled = 0 /\ frames = 0
    /\ resetDone = FALSE
    /\ last = NoLast

\* The accumulator holds the same byte v as the cell; Y keeps a copy of v
\* and X a copy of the status register, which is either Carry alone or
\* Negative and Zero without Carry
ShiftSetups ==
    { [A |-> mem[ShiftCell], X |-> q, Y |-> mem[ShiftCell], SP |-> 255,
       P |-> q, PC |-> \h8000] : q \in {\h21, \hA2} }

\* ASL, LSR, ROL, ROR on the accumulator (0A, 4A, 2A, 6A) and on the
\* zero-page cell (06, 46, 26, 66)
ShiftEnv ==
    [ops |-> {\h0A, \h4A, \h2A, \h6A, \h06, \h46, \h26, \h66},
     bytes |-> {ShiftCell}, words |-> {0}, ptrs |-> {0}, data |-> {0}]

NextShift ==
    \/ UnitReset
    \/ UnitSetup(ShiftSetups)
    \/ UnitRun(ShiftEnv)

SpecShift == InitShift /\ [][NextShift]_vars

\* Bus traffic: the instructions that work on registers and flags only, the
\* loads, ALU operations, compares and BIT, the stores, and the memory
\* read-modify-writes
RegisterInsts ==
    {"TAX", "TAY", "TXA", "TYA", "TSX", "TXS", "INX", "INY", "DEX", "DEY",
     "CLC", "CLD", "CLI", "CLV", "SEC", "SED", "SEI", "NOP",
     "ASLA", "LSRA", "ROLA", "RORA"}
ReadInsts ==
    {"LDA", "LDX", "LDY", "ADC", "SBC", "AND", "ORA", "EOR",
     "CMP", "CPX", "CPY", "BIT"}
StoreInsts == {"STA", "STX", "STY"}
ModifyInsts == {"ASL", "LSR", "ROL", "ROR", "INC", "DEC"}

\* Registers with the flags clear, with Decimal set, and with N, V, Z, C set
BusSetups ==
    { [A |-> \h5A, X |-> \h03, Y |-> \hF0, SP |-> 255, P |-> q,
       PC |-> \h8000] : q \in {\h20, \h28, \hE3} }

\* Every opcode of the four classes, in every addressing mode it has, on
\* mapped ($0010) and unmapped operands
BusEnv ==
    [ops   |-> { op \in DOMAIN OpTable :
                   OpTable[op].inst \in RegisterInsts \cup ReadInsts
                                        \cup StoreInsts \cup ModifyInsts },
     bytes |-> {\h10, \h80},
     words |-> {\h0010, \h1234},
     ptrs  |-> {\h0200},
     data  |-> {\h00, \hFF}]

NextBus ==
    \/ UnitReset
    \/ UnitSetup(BusSetups)
    \/ UnitExec(BusEnv)

SpecBus == InitUnit /\ [][NextBus]_vars

----------------------------------------------------------------------------
\* The interrupt vectors' targets, as words
NmiTarget(m) == loadOperand16bit(m, VECTOR_NMI, 0, 0)
ResetTarget(m) == loadOperand16bit(m, VECTOR_RESET, 0, 0)

\* C1: once CpuReset has been called, whatever CpuExecOneInst and
\* CpuRequestIRQ calls follow (PLP and RTI popping any byte, BRK, NMI entry),
\* the Reserved bit of P is set whenever the process runs, and the assertion
\* P[F_NOTUSED] never fails.
C1_ReservedAlwaysSet ==
    resetDone =>
        /\ halt # "assert_notused"
        /\ (halt = "run" => HasBit(P, F_NOTUSED))

\* A PLP or RTI has just popped a status byte whose Reserved bit is clear.
C1_Witness ==
    /\ resetDone /\ halt = "run" /\ last.op = "exec"
    /\ \/ last.inst = "PLP" /\ ~HasBit(stack[SP], F_NOTUSED)
       \/ last.inst = "RTI" /\ ~HasBit(stack[Wrap8(SP + 254)], F_NOTUSED)

\* C2: with InterruptDisable set, a latched NMI is serviced at the next
\* CpuExecOneInst (the opcode is fetched at the NMI vector's target), and a
\* latched maskable IRQ (kind IRQ::BRK, the kind of the IRQ/BRK vector) is
\* dropped: the opcode is fetched at the unchanged PC, nothing is pushed
\* before the fetch, the process does not abort on the request and no
\* request stays pending.
C2_NmiFiresIrqDropped ==
    [][ ( /\ resetDone /\ halt = "run" /\ irqRequested
          /\ HasBit(P, F_INTERRUPT_OFF)
          /\ last'.op = "exec" )
        => /\ (irqType = IRQ_NMI /\ halt' # "assert_sp")
                => last'.opaddr = NmiTarget(mem)
           /\ irqType = IRQ_BRK
                => /\ halt' # "assert_irq"
                   /\ last'.opaddr = PC
                   /\ last'.preSP = SP
                   /\ ~irqRequested' /\ irqType' = IRQ_NONE ]_vars

\* C3: a CpuExecOneInst that starts with an NMI latched consumes the latch,
\* pushes PC (high byte, then low byte) and P, sets InterruptDisable and
\* fetches its opcode at the NMI vector's target.  InterruptDisable is read
\* after a handler instruction that leaves it alone (LDA, PHA, JSR).
C3_NmiEntrySequence ==
    [][ ( /\ resetDone /\ halt = "run" /\ irqRequested /\ irqType = IRQ_NMI
          /\ last'.op = "exec" /\ halt' = "run" )
        => /\ ~irqRequested' /\ irqType' = IRQ_NONE
           /\ last'.preSP = Wrap8(SP + 253)
           /\ stack'[SP] = HighByte(PC)
           /\ stack'[Wrap8(SP + 255)] = LowByte(PC)
           /\ stack'[Wrap8(SP + 254)] = P
           /\ last'.opaddr = NmiTarget(mem)
           /\ last'.inst \in {"LDA", "PHA", "JSR"}
                => HasBit(P', F_INTERRUPT_OFF) ]_vars

\* C4: the latch holds one request.  A CpuRequestIRQ call leaves exactly its
\* own kind latched, whatever was pending; a CpuExecOneInst that returns
\* leaves nothing latched; with a request latched it performs one interrupt
\* sequence (three bytes pushed before the fetch) and without one it performs
\* none (the opcode is fetched at PC with the stack pointer untouched).
C4_LatchHoldsOneRequest ==
    [][ /\ last'.op = "request"
            => /\ irqRequested' = (last'.irq # IRQ_NONE)
               /\ irqType' = last'.irq
        /\ (last'.op = "exec" /\ halt' = "run")
            => /\ ~irqRequested' /\ irqType' = IRQ_NONE
               /\ last'.preSP = IF irqRequested THEN Wrap8(SP + 253) ELSE SP
        /\ (last'.op = "exec" /\ ~irqRequested)
            => /\ last'.opaddr = PC
               /\ last'.preSP = SP ]_vars

\* A request has just replaced a pending request of another kind.
C4_Witness ==
    /\ resetDone /\ halt = "run" /\ last.op = "request" /\ last.over
    /\ last.irq = IRQ_NMI /\ irqRequested /\ irqType = IRQ_NMI

\* C6: a latched request of kind IRQ::RST is handled at the next
\* CpuExecOneInst without abort and without a push: the opcode is fetched at
\* the reset vector's target with the stack pointer at its maximum.
C6_ResetKindHandled ==
    (resetDone /\ last.op = "exec" /\ last.irq = IRQ_RST)
        => /\ halt # "assert_irq"
           /\ last.opaddr = ResetTarget(mem)
           /\ last.preSP = 255

\* C5: whatever the state before, CpuReset yields A = X = Y = 0, SP = 0xFF,
\* P = Reserved bit only, no interrupt pending (kind NONE), cycle counter 0
\* and PC = the little-endian word stored at $FFFC/$FFFD, and it writes
\* nothing to the stack page.
C5_ResetState ==
    [][ last'.op = "reset"
        => /\ A' = 0 /\ X' = 0 /\ Y' = 0
           /\ SP' = 255
           /\ P' = F_NOTUSED
           /\ ~irqRequested' /\ irqType' = IRQ_NONE
           /\ cycles' = 0
           /\ PC' = makeWord(mem[VECTOR_RESET], mem[VECTOR_RESET + 1])
           /\ stack' = stack ]_vars

\* CpuReset has run after a frame whose program pushed onto the stack.
C5_Witness ==
    /\ last.op = "reset" /\ halt = "run" /\ frames > 0
    /\ stack[255] # 0
    /\ A = 0 /\ SP = 255 /\ cycles = 0 /\ PC = \h8000

\* C7: every call of the scanline hook, the one that reports frame
\* completion included, is matched by one subtraction of the budget from the
\* cycle counter before CpuRunFrame returns or its loop resumes, so no hook
\* call is left unsettled.
C7_HookCallsSettled ==
    [][ last'.op \in {"hsync", "return"}
        => /\ cycles' = cycles - maxCycles
           /\ unsettled' = 0 ]_vars

\* C8: in CpuRunFrame an instruction is executed only while the cycle counter
\* is at most the budget, and the hook is called only while the counter
\* exceeds it; so after an instruction has pushed the counter over the budget
\* the hook is called before the next instruction.
C8_BudgetCheckedBetweenInsts ==
    [][ /\ (pos = "frame" /\ last'.op = "exec") => cycles <= maxCycles
        /\ last'.op \in {"hsync", "return"} => cycles > maxCycles
        /\ (pos = "frame" /\ cycles > maxCycles)
             => last'.op \in {"hsync", "return"} ]_vars

\* An instruction has just returned inside a frame with the counter over the
\* budget.
C8_Witness ==
    /\ halt = "run" /\ pos = "frame" /\ last.op = "exec"
    /\ cycles > maxCycles

\* CpuRunFrame leaves its loop by the hook call that reports completion and
\* by nothing else.
FrameExitOnlyByHook ==
    [][ (pos = "frame" /\ pos' = "idle") <=> last'.op = "return" ]_vars

C10_JsrRtsRoundTrip ==
    [][ /\ ( /\ last'.op = "exec" /\ last'.inst = "JSR" /\ halt' = "run"
              /\ last'.preSP >= 2 )
            => /\ PC' = last'.addr
               /\ SP' = last'.preSP - 2
               /\ stack'[last'.preSP] = HighByte(Wrap16(last'.opaddr + 2))
               /\ stack'[last'.preSP - 1] = LowByte(Wrap16(last'.opaddr + 2))
        /\ ( /\ last.op = "exec" /\ last.inst = "JSR" /\ halt = "run"
              /\ last.preSP >= 2
              /\ last'.op = "exec" /\ last'.inst = "RTS" /\ halt' = "run" )
            => /\ last'.opaddr = last.addr
               /\ PC' = Wrap16(last.opaddr + 3)
               /\ SP' = last.preSP ]_vars

\* JSR $1234 at $8000 followed by RTS.
C10_Witness ==
    /\ halt = "run" /\ last.op = "exec" /\ last.inst = "RTS"
    /\ last.opaddr = \h1234 /\ PC = \h8003 /\ SP = 255

\* C11: for every status register, PHP writes to the stack the status
\* register with Break and Reserved forced set and leaves the live status
\* register unchanged; PLP loads the popped byte with Reserved forced set
\* (Break as popped).
C11_PhpPlpStatusByte ==
    [][ ( /\ resetDone /\ halt = "run" /\ ~irqRequested
          /\ last'.op = "exec" /\ halt' = "run" )
        => /\ last'.inst = "PHP"
                => /\ stack'[SP] = BitOr(P, F_BREAK + F_NOTUSED)
                   /\ SP' = Wrap8(SP + 255)
                   /\ P' = P
           /\ last'.inst = "PLP"
                => /\ P' = BitOr(stack[Wrap8(SP + 1)], F_NOTUSED)
                   /\ SP' = Wrap8(SP + 1) ]_vars

\* C12: BRK at address a pushes a+2 high byte then low byte, then the status
\* register with Break set (InterruptDisable as it was before the BRK), then
\* sets InterruptDisable and loads PC from $FFFE/$FFFF; the stack pointer
\* goes down by exactly 3.
C12_BrkEntry ==
    [][ ( /\ resetDone /\ halt = "run"
          /\ last'.op = "exec" /\ last'.inst = "BRK" /\ halt' = "run"
          /\ last'.preSP >= 3 )
        => LET a == last'.opaddr
               s == last'.preSP
           IN  /\ stack'[s] = HighByte(Wrap16(a + 2))
               /\ stack'[s - 1] = LowByte(Wrap16(a + 2))
               /\ stack'[s - 2] = BitOr(P, F_BREAK)
               /\ SP' = s - 3
               /\ HasBit(P', F_INTERRUPT_OFF)
               /\ PC' = makeWord(mem[VECTOR_IRQ], mem[VECTOR_IRQ + 1]) ]_vars

\* BRK at $8000 with InterruptDisable clear: $8002 and status $30 are on the
\* stack, InterruptDisable is set in the live register only.
C12_Witness ==
    /\ halt = "run" /\ last.op = "exec" /\ last.inst = "BRK"
    /\ last.opaddr = \h8000 /\ SP = 252 /\ PC = \hA000
    /\ stack[255] = \h80 /\ stack[254] = \h02 /\ stack[253] = \h30
    /\ HasBit(P, F_INTERRUPT_OFF)

\* C13: RTI pops the status register (Reserved forced set), then a 16-bit
\* program counter that it does not adjust; so RTI as the first handler
\* instruction after an NMI entry or after BRK resumes at the pushed program
\* counter with the stack pointer of before the entry and the pushed status
\* byte as status register.
C13_RtiRestores ==
    [][ /\ ( /\ resetDone /\ halt = "run"
              /\ last'.op = "exec" /\ last'.inst = "RTI" /\ halt' = "run" )
            => LET s == last'.preSP
               IN  /\ P' = BitOr(stack'[Wrap8(s + 1)], F_NOTUSED)
                   /\ PC' = makeWord(stack'[Wrap8(s + 2)], stack'[Wrap8(s + 3)])
                   /\ SP' = Wrap8(s + 3)
        /\ ( /\ resetDone /\ halt = "run"
              /\ irqRequested /\ irqType = IRQ_NMI
              /\ last'.op = "exec" /\ last'.inst = "RTI" /\ halt' = "run" )
            => /\ PC' = PC /\ SP' = SP /\ P' = P
        /\ ( /\ resetDone /\ halt = "run"
              /\ last.op = "exec" /\ last.inst = "BRK" /\ last.preSP >= 3
              /\ last'.op = "exec" /\ last'.inst = "RTI" /\ halt' = "run" )
            => /\ PC' = Wrap16(last.opaddr + 2)
               /\ SP' = last.preSP
               /\ P' = stack[Wrap8(SP + 1)]
               /\ HasBit(P', F_NOTUSED) /\ HasBit(P', F_BREAK) ]_vars

\* An NMI taken at $8000 and returned from by RTI at the handler's first
\* instruction.
C13_Witness ==
    /\ halt = "run" /\ last.op = "exec" /\ last.inst = "RTI"
    /\ last.irq = IRQ_NMI /\ last.opaddr = \h9000
    /\ PC = \h8000 /\ SP = 255 /\ P = F_NOTUSED
    /\ stack[255] = \h80 /\ stack[253] = F_NOTUSED

\* C14: fetching an illegal opcode does not abort the process; the call
\* returns with registers, flags, stack and memory unchanged.
C14_IllegalOpcodeRecoverable ==
    [][ ( /\ resetDone /\ halt = "run" /\ ~irqRequested
          /\ last'.op = "exec" /\ last'.inst = "UNKNOWN" )
        => /\ halt' = "run"
           /\ last'.opaddr = PC
           /\ A' = A /\ X' = X /\ Y' = Y /\ P' = P /\ SP' = SP
           /\ stack' = stack /\ mem' = mem ]_vars

\* C15: CMP, CPX, CPY with register value r (A, X, Y) and memory operand m
\* leave the registers and memory unchanged and set Carry iff r >= m, Zero
\* iff r = m, Negative iff bit 7 of (r - m) mod 256 is set.
C15_CompareFlags ==
    [][ ( /\ resetDone /\ halt = "run"
          /\ last'.op = "exec" /\ last'.inst \in {"CMP", "CPX", "CPY"} )
        => LET r == CASE last'.inst = "CMP" -> A
                      [] last'.inst = "CPX" -> X
                      [] last'.inst = "CPY" -> Y
               m == last'.value
           IN  /\ halt' = "run"
               /\ A' = A /\ X' = X /\ Y' = Y /\ mem' = mem
               /\ HasBit(P', F_CARRY) <=> (r >= m)
               /\ HasBit(P', F_ZERO) <=> (r = m)
               /\ HasBit(P', F_NEGATIVE) <=> (((r - m + 256) % 256) >= 128) ]_vars

\* CMP with A = $50 against $60: Carry clear, Zero clear, Negative set.
C15_Witness ==
    /\ halt = "run" /\ last.op = "exec" /\ last.inst = "CMP"
    /\ A = \h50 /\ last.value = \h60
    /\ ~HasBit(P, F_CARRY) /\ ~HasBit(P, F_ZERO) /\ HasBit(P, F_NEGATIVE)

\* C16: JMP (ind) with pointer p reads the target's low byte at p and its
\* high byte at (p & $FF00) | ((p + 1) & $00FF), never in the next page, and
\* PC after the JMP is that target.
C16_IndirectJumpPageWrap ==
    [][ ( /\ resetDone /\ halt = "run"
          /\ last'.op = "exec" /\ last'.inst = "JMP" )
        => LET p    == last'.operand
               hiAt == ((p \div 256) * 256) + ((p + 1) % 256)
           IN  /\ halt' = "run"
               /\ Len(last'.bus) = 2
               /\ {last'.bus[1], last'.bus[2]} = {<<"r", p>>, <<"r", hiAt>>}
               /\ PC' = last'.addr
               /\ (p \in DOMAIN mem /\ hiAt \in DOMAIN mem)
                    => PC' = mem[p] + (256 * mem[hiAt]) ]_vars

\* JMP ($30FF) with $34 at $30FF, $12 at $3000 and $56 at $3100 goes to $1234.
C16_Witness ==
    /\ halt = "run" /\ last.op = "exec" /\ last.inst = "JMP"
    /\ last.operand = \h30FF /\ mem[\h3100] = \h56
    /\ PC = \h1234

\* The tested condition of a branch instruction on status register p
BranchTaken(inst, p) ==
    CASE inst = "BCC" -> ~HasBit(p, F_CARRY)
      [] inst = "BCS" -> HasBit(p, F_CARRY)
      [] inst = "BEQ" -> HasBit(p, F_ZERO)
      [] inst = "BNE" -> ~HasBit(p, F_ZERO)
      [] inst = "BPL" -> ~HasBit(p, F_NEGATIVE)
      [] inst = "BMI" -> HasBit(p, F_NEGATIVE)
      [] inst = "BVC" -> ~HasBit(p, F_OVERFLOW)
      [] inst = "BVS" -> HasBit(p, F_OVERFLOW)

\* C20: a conditional branch at a with displacement byte d has the target
\* (a + 2 + signext(d)) mod 65536; taken, PC is the target and the call
\* returns base+1 cycles, or base+2 when the target's high byte differs from
\* that of a+2; not taken, PC is a+2 and the call returns base cycles.  No
\* flag changes.
C20_BranchTargetAndCycles ==
    [][ ( /\ resetDone /\ halt = "run"
          /\ last'.op = "exec"
          /\ last'.inst \in {"BCC", "BCS", "BEQ", "BNE", "BPL", "BMI", "BVC", "BVS"} )
        => LET a      == last'.opaddr
               d      == last'.operand
               next   == (a + 2) % 65536
               target == (a + 2 + (IF d >= 128 THEN d - 256 ELSE d)) % 65536
               base   == OpTable[\h90].cycles
           IN  /\ halt' = "run"
               /\ P' = P
               /\ last'.addr = target
               /\ IF BranchTaken(last'.inst, P)
                  THEN /\ PC' = target
                       /\ last'.ret = IF (target \div 256) # (next \div 256)
                                       THEN base + 2 ELSE base + 1
                  ELSE /\ PC' = next
                       /\ last'.ret = base ]_vars

\* C17: with ALLOW_ADDRESS_WRAP undefined every stack operation whose
\* stack-pointer movement wraps fails its assertion: an 8-bit push at SP = 0,
\* a 16-bit push at SP = 0 or 1, an 8-bit pop at SP = $FF, a 16-bit pop at
\* SP = $FE or $FF; and an operation that passes its assertions touches no
\* byte outside the stack page.
C17_StackWrapDetected ==
    [][ ( /\ resetDone /\ halt = "run" /\ ~irqRequested
          /\ last'.op = "exec" )
        => /\ (last'.inst \in {"PHA", "PHP"} /\ SP = 0)
                => halt' = "assert_sp"
           /\ (last'.inst = "JSR" /\ SP \in {0, 1})
                => halt' = "assert_sp"
           /\ (last'.inst \in {"PLA", "PLP"} /\ SP = 255)
                => halt' = "assert_sp"
           /\ (last'.inst = "RTS" /\ SP \in {254, 255})
                => halt' = "assert_sp"
           /\ (~oob /\ halt' = "run") => ~oob' ]_vars

\* C18: for every starting stack pointer PUSH_16(w) (as JSR calls it) leaves
\* the stack bytes and stack pointer of PUSH_8(high(w)) then PUSH_8(low(w)),
\* and pop16bit() (as RTS calls it) returns the word and leaves the stack
\* pointer of lo = pop(), hi = pop(), word = hi*256 + lo; one passes its
\* assertions exactly when the other does.
C18_Stack16AsTwo8 ==
    [][ ( /\ resetDone /\ halt = "run" /\ ~irqRequested
          /\ last'.op = "exec" )
        => /\ last'.inst = "JSR"
                => LET w  == Wrap16(last'.opaddr + 2)
                       c2 == PUSH_8(PUSH_8(Ctx, HighByte(w)), LowByte(w))
                   IN  /\ (halt' = "run") <=> Running(c2)
                       /\ halt' = "run"
                            => (stack' = c2.stack /\ SP' = c2.SP)
           /\ last'.inst = "RTS"
                => LET c1 == popCtx(Ctx)
                       lo == popVal(Ctx)
                       c2 == popCtx(c1)
                       hi == popVal(c1)
                   IN  /\ (halt' = "run") <=> Running(c2)
                       /\ halt' = "run"
                            => /\ SP' = c2.SP
                               /\ PC' = Wrap16((hi * 256) + lo + 1) ]_vars

\* A byte read as a signed two's-complement number
Signed8(b) == IF b >= 128 THEN b - 256 ELSE b

\* C19: whatever the Decimal flag is, ADC completes with A' = (A+M+c) mod 256
\* and Carry = (A+M+c > 255), SBC completes with A' = (A-M-(1-c)) mod 256 and
\* Carry = (A >= M+(1-c)); Overflow is the signed overflow of the operation,
\* Zero and Negative follow A'; neither aborts nor changes the Decimal flag.
C19_BinaryArithmetic ==
    [][ ( /\ resetDone /\ halt = "run"
          /\ last'.op = "exec" /\ last'.inst \in {"ADC", "SBC"} )
        => LET m    == last'.value
               c    == IF HasBit(P, F_CARRY) THEN 1 ELSE 0
               sum  == IF last'.inst = "ADC" THEN A + m + c
                       ELSE A - m - (1 - c)
               ssum == IF last'.inst = "ADC" THEN Signed8(A) + Signed8(m) + c
                       ELSE Signed8(A) - Signed8(m) - (1 - c)
           IN  /\ halt' = "run"
               /\ A' = (sum + 256) % 256
               /\ HasBit(P', F_CARRY) <=>
                     (IF last'.inst = "ADC" THEN sum > 255 ELSE sum >= 0)
               /\ HasBit(P', F_OVERFLOW) <=> (ssum < -128 \/ ssum > 127)
               /\ HasBit(P', F_ZERO) <=> (A' = 0)
               /\ HasBit(P', F_NEGATIVE) <=> (A' >= 128)
               /\ HasBit(P', F_BCD) <=> HasBit(P, F_BCD) ]_vars

----------------------------------------------------------------------------
BranchInsts == {"BCC", "BCS", "BEQ", "BMI", "BNE", "BPL", "BVC", "BVS"}

\* C21: for a non-branch instruction CpuExecOneInst returns the opcode's
\* base cycle count plus a penalty of 0 or 1.  The penalty is 1 exactly
\* when the mode is absolute,X or absolute,Y, the 16-bit base plus the index
\* has another high byte than the base, and the base count is 4; or the mode
\* is (zp),Y, the dereferenced pointer plus Y has another high byte than the
\* pointer, and the base count is 5.  In these three modes the effective
\* address is the 16-bit sum, not masked to a page.
C21_PageCrossPenalty ==
    [][ (last'.op = "exec" /\ halt' = "run" /\ last'.inst \notin BranchInsts)
        => LET opinf == OpTable[last'.opcode]
               mode  == opinf.addrmode
               base  == opinf.cycles
               w     == last'.operand
               from  == IF mode = "INDY" THEN makeWord(mem[w], mem[w + 1])
                        ELSE w
               index == IF mode = "ABSX" THEN X ELSE Y
               sum   == (from + index) % 65536
               crossed == (sum \div 256) # (from \div 256)
               penalty ==
                   IF \/ mode \in {"ABSX", "ABSY"} /\ crossed /\ base = 4
                      \/ mode = "INDY" /\ crossed /\ base = 5
                   THEN 1 ELSE 0
           IN  /\ last'.ret = base + penalty
               /\ mode \in {"ABSX", "ABSY", "INDY"} => last'.addr = sum ]_vars

\* LDA $12FF,X with X = 1 read $1300 and took 4 + 1 cycles
C21_Witness ==
    /\ last.op = "exec" /\ halt = "run"
    /\ last.opcode = \hBD /\ last.operand = \h12FF /\ X = 1
    /\ last.addr = \h1300 /\ last.ret = 5

----------------------------------------------------------------------------
AccShifts == {"ASLA", "LSRA", "ROLA", "RORA"}
MemShifts == {"ASL", "LSR", "ROL", "ROR"}

\* C22: for every byte v and carry-in c, on the accumulator and on memory
\* alike, ASL gives 2v mod 256 with Carry = bit 7 of v; LSR gives v div 2
\* with Carry = bit 0 of v and Negative clear; ROL gives (2v mod 256) + c
\* with Carry = bit 7 of v; ROR gives (v div 2) + 128c with Carry = bit 0 of
\* v; Zero, and except for LSR Negative, are those of the 8-bit result.
\* ROR followed by ROL on the same operand restores the operand and Carry.
C22_ShiftRotate ==
    [][ (last'.op = "exec" /\ halt' = "run"
         /\ last'.inst \in AccShifts \cup MemShifts)
        => LET inst  == last'.inst
               acc   == inst \in AccShifts
               v     == IF acc THEN A ELSE mem[last'.addr]
               res   == IF acc THEN A' ELSE mem'[last'.addr]
               c     == IF HasBit(P, F_CARRY) THEN 1 ELSE 0
               left  == inst \in {"ASLA", "ASL", "ROLA", "ROL"}
               want  == CASE inst \in {"ASLA", "ASL"} -> (2 * v) % 256
                          [] inst \in {"LSRA", "LSR"} -> v \div 2
                          [] inst \in {"ROLA", "ROL"} -> ((2 * v) % 256) + c
                          [] inst \in {"RORA", "ROR"} -> (v \div 2) + (128 * c)
               out   == IF left THEN v >= 128 ELSE v % 2 = 1
           IN  /\ res = want
               /\ HasBit(P', F_CARRY) <=> out
               /\ HasBit(P', F_ZERO) <=> (res = 0)
               /\ HasBit(P', F_NEGATIVE)
                     <=> (inst \notin {"LSRA", "LSR"} /\ res >= 128)
               \* ROR then ROL: Y and X hold the operand and the status
               \* register from before the ROR
               /\ (last.op = "exec" /\ steps = 1
                   /\ <<last.inst, inst>> \in {<<"RORA", "ROLA">>, <<"ROR", "ROL">>})
                  => /\ res = Y
                     /\ HasBit(P', F_CARRY) <=> HasBit(X, F_CARRY) ]_vars

\* ROR $10 then ROL $10 on v = $81 with Carry clear: the cell is $81 again
C22_Witness ==
    /\ last.op = "exec" /\ halt = "run" /\ steps = 2
    /\ last.inst = "ROL" /\ last.value = \h40
    /\ Y = \h81 /\ X = \hA2 /\ mem[ShiftCell] = \h81
    /\ ~HasBit(P, F_CARRY)

----------------------------------------------------------------------------
\* C23: on a recording bus, an instruction that works on registers or flags
\* only makes no read6502 and no write6502 call; a load, ALU operation,
\* compare or BIT makes exactly one read6502 call, of its effective address,
\* and no write6502 call; a store makes exactly one write6502 call and no
\* read6502 call; a read-modify-write on memory makes one read6502 call
\* followed by one write6502 call at the same effective address.
C23_BusTraffic ==
    [][ last'.op = "exec"
        => LET inst == last'.inst
               mode == OpTable[last'.opcode].addrmode
               ea   == last'.addr
           IN  /\ inst \in RegisterInsts => last'.bus = << >>
               /\ inst \in ReadInsts => last'.bus = << <<"r", ea>> >>
               /\ inst \in StoreInsts => last'.bus = << <<"w", ea>> >>
               /\ inst \in ModifyInsts
                     => last'.bus = << <<"r", ea>>, <<"w", ea>> >>
               /\ (inst \in ReadInsts \cup StoreInsts \cup ModifyInsts)
                     => /\ mode \in {"ZP", "ABS"} => ea = last'.operand
                        /\ mode = "IMM" => ea = last'.opaddr + 1 ]_vars

============================================================================
